---- MODULE Spec2Model ----
(***************************************************************************)
(* A model of scripts/generate_blog_post.py: the six-stage blog pipeline   *)
(* run by main(), the files it persists (post HTML files, posts.json and   *)
(* index.html, all in the repository root), and the pure helper            *)
(* create_slug.                                                            *)
(*                                                                         *)
(* Strings that the code inspects character by character (titles, slugs,   *)
(* file names) are sequences of one-character strings.                     *)
(***************************************************************************)
EXTENDS Integers, Sequences, FiniteSets, TLC

VARIABLES
    pc,          \* where main() is: the stage it runs next, or how it ended
    run,         \* number of pipeline runs started so far
    topic_data,  \* main's local topic_data (None before stage 1)
    research,    \* main's local research (None before stage 2)
    blog_data,   \* main's local blog_data (None before stage 3)
    slug,        \* main's local slug, the result of save_blog_post
    stages,      \* the stages this run has started, in order
    calls,       \* the API calls this run has attempted, in order
    written,     \* the files this run has opened for writing
    git,         \* the git commands this run has executed, in order
    env,         \* the CI indicator variables as read by this run's stage 6
    disk0,       \* the persisted files as this run found them
    postsExists, \* POSTS_JSON.exists()
    posts,       \* the list stored in posts.json
    files,       \* the HTML files of the repository root: name -> content
    slugIn,      \* create_slug as a pure function: its argument ...
    slugOut,     \* ... and its result (None until it is applied)
    slugAgain,   \* create_slug of that result (None until it is applied)
    readIn,      \* calculate_read_time as a pure function: its argument ...
    readOut,     \* ... and its result (None until it is applied)
    procs        \* concurrent runs inside save_blog_post: run -> its locals

vars == <<pc, run, topic_data, research, blog_data, slug, stages, calls,
          written, git, env, disk0, postsExists, posts, files, slugIn, slugOut,
          slugAgain, readIn, readOut, procs>>

runVars == <<topic_data, research, blog_data, slug, stages, calls, written,
             git, env, disk0>>
diskVars == <<postsExists, posts, files>>
slugVars == <<slugIn, slugOut, slugAgain>>
sideVars == <<readIn, readOut, procs>>

\* ------------------------------------------------------------------ bounds

MaxRuns == 3
MaxSuffix == 2
MaxPosts == 23
MaxWords == 500

\* ------------------------------------------------------- characters, str

LowerLetters == {"a", "b", "d", "e", "i", "n", "x"}
UpperLetters == {"A", "B", "I"}
Digits == {"1"}
Whitespace == {" ", "\t"}

Min(S) == CHOOSE x \in S : \A y \in S : x <= y
Max(S) == CHOOSE x \in S : \A y \in S : x >= y

\* str.lower() on one character
ToLower(c) ==
    CASE c = "A" -> "a"
      [] c = "B" -> "b"
      [] c = "I" -> "i"
      [] OTHER -> c

Lower(s) == [i \in 1..Len(s) |-> ToLower(s[i])]

\* the limit of create_slug's final slice, slug[:60]
SlugMax == 60

\* re.sub(r'[^a-z0-9\s-]', '', slug)
KeptBySlug(c) == c \in LowerLetters \cup Digits \cup Whitespace \cup {"-"}
StripDisallowed(s) == SelectSeq(s, KeptBySlug)

\* re.sub(pattern+, '-', s) for a character class: every maximal run of
\* characters of the class becomes one hyphen
NonEmptyChar(c) == c # ""
SubRuns(s, class) ==
    SelectSeq([i \in 1..Len(s) |->
                  IF s[i] \in class
                  THEN IF i > 1 /\ s[i-1] \in class THEN "" ELSE "-"
                  ELSE s[i]],
              NonEmptyChar)

\* str.strip('-')
StripHyphens(s) ==
    LET keep == {i \in 1..Len(s) : s[i] # "-"}
    IN  IF keep = {} THEN <<>> ELSE SubSeq(s, Min(keep), Max(keep))

\* s[:n]
Prefix(s, n) == SubSeq(s, 1, IF Len(s) < n THEN Len(s) ELSE n)

create_slug(title) ==
    LET s1 == Lower(title)
        s2 == StripDisallowed(s1)
        s3 == SubRuns(s2, Whitespace \cup {"_"})
        s4 == SubRuns(s3, {"-"})
        s5 == StripHyphens(s4)
    IN  Prefix(s5, SlugMax)

\* ------------------------------------------------------- optional values

\* Python's None is the empty tuple and a present value v is <<v>>, so that
\* None differs from the empty string.
Some(v) == <<v>>
IsNone(o) == o = <<>>
Get(o) == o[1]

\* truthiness of an Optional[str] (`if not slug`, `os.environ.get(...) or ...`):
\* None and the empty string are falsy
Truthy(o, empty) == ~IsNone(o) /\ Get(o) # empty

\* ------------------------------------------------------------- file names

HtmlExt == <<".html">>
\* POSTS_DIR / f"{slug}.html"
PostFilename(s) == s \o HtmlExt
\* Path(__file__).parent.parent / "index.html", the same directory as the posts
IndexPath == <<"i", "n", "d", "e", "x">> \o HtmlExt
PostsJsonPath == <<"posts.json">>

\* open(path, "w").write(content) on the HTML files of the repository root
WriteFile(fs, name, content) ==
    [f \in DOMAIN fs \cup {name} |-> IF f = name THEN content ELSE fs[f]]

\* ---------------------------------------------------------- static tables

\* a few entries of TOPIC_CATEGORIES; a topic seed is its list of words
TOPIC_CATEGORIES ==
    [photography_tips |-> {<<"HDR", "photography", "techniques", "for", "homes">>},
     seller_guides    |-> {<<"FSBO", "vs", "agent", "for", "home", "sales">>,
                           <<"selling", "a", "luxury", "home", "guide">>}]

\* str.title() on one word: first letter upper case, the rest lower case
TitleWord(w) ==
    CASE w = "HDR" -> "Hdr"
      [] w = "photography" -> "Photography"
      [] w = "techniques" -> "Techniques"
      [] w = "homes" -> "Homes"
      [] w = "FSBO" -> "Fsbo"
      [] w = "vs" -> "Vs"
      [] w = "agent" -> "Agent"
      [] w = "for" -> "For"
      [] w = "home" -> "Home"
      [] w = "sales" -> "Sales"
      [] w = "selling" -> "Selling"
      [] w = "a" -> "A"
      [] w = "luxury" -> "Luxury"
      [] w = "guide" -> "Guide"
      [] OTHER -> w

\* --------------------------------------------------- what the API returns

\* titles the content-generation call can return
ApiTitles ==
    { <<"A", " ", "b">>,            \* slug a-b
      <<"a", "-", "b", "!">>,       \* slug a-b again, from another title
      <<"B", "1">>,                 \* slug b1
      <<"!">>,                      \* slug is the empty string
      <<"I", "n", "d", "e", "x">> } \* slug index

\* a call that yields no parsed object: requests raises or the status is not
\* 2xx ("error"), the reply holds no {...} ("nojson"), json.loads raises
\* ("badjson")
FailureKinds == {"error", "nojson", "badjson"}
Failed(kind) == [kind |-> kind, obj |-> <<>>]
Parsed(obj) == [kind |-> "json", obj |-> Some(obj)]

\* a JSON value that is no string, inside a list
NonStr == "<number>"

\* objects the topic call can return: complete, with target_keywords that
\* is no list of strings, or without a title
TopicObjects ==
    { [title |-> Some(<<"Drone", "Tips">>), search_query |-> Some(<<"drone", "tips">>),
       angle |-> Some("hook"), target_keywords |-> Some(<<"drone", "tips">>)],
      [title |-> Some(<<"Drone", "Tips">>), search_query |-> Some(<<"drone", "tips">>),
       angle |-> Some("hook"), target_keywords |-> Some(<<"drone", NonStr>>)],
      [title |-> <<>>, search_query |-> Some(<<"drone", "tips">>),
       angle |-> Some("hook"), target_keywords |-> Some(<<"drone", "tips">>)] }
TopicResponses == {Failed(k) : k \in FailureKinds} \cup {Parsed(o) : o \in TopicObjects}

ResearchResponses == {"error", "ok"}

\* objects the content call can return: complete, without a title, or
\* without a meta_description
ContentObjects ==
    { [title |-> Some(t), meta_description |-> Some("meta"), content |-> Some("body")]
        : t \in ApiTitles }
    \cup { [title |-> <<>>, meta_description |-> Some("meta"), content |-> Some("body")],
           [title |-> Some(<<"B", "1">>), meta_description |-> <<>>,
            content |-> Some("body")] }
ContentResponses ==
    {Failed(k) : k \in FailureKinds} \cup {Parsed(o) : o \in ContentObjects}

\* ', '.join(words) raises TypeError unless every item is a str
Joinable(words) == \A i \in 1..Len(words) : words[i] # NonStr

\* a reply that parses to an object with every field the pipeline reads
WellFormed(resp) ==
    /\ resp.kind = "json"
    /\ \A k \in DOMAIN Get(resp.obj) : ~IsNone(Get(resp.obj)[k])
    /\ ("target_keywords" \in DOMAIN Get(resp.obj)
          => Joinable(Get(Get(resp.obj).target_keywords)))

\* a dict with one more key set: d[key] = value
WithKey(d, key, value) ==
    [k \in DOMAIN d \cup {key} |-> IF k = key THEN value ELSE d[k]]

\* ------------------------------------------------------ stages 1, 2 and 3

\* str.title() and str.split()[:3] on a topic seed
TitleCase(words) == [i \in 1..Len(words) |-> TitleWord(words[i])]

\* a fallback descriptor that lacks its title
FallbackTopic_NoTitle(category, base_topic) ==
    [title |-> <<>>,
     search_query |-> Some(base_topic),
     angle |-> Some("comprehensive guide"),
     target_keywords |-> Some(Prefix(base_topic, 3)),
     category |-> Some(category)]

FallbackTopic(category, base_topic) ==
    [title |-> Some(TitleCase(base_topic)),
     search_query |-> Some(base_topic),
     angle |-> Some("comprehensive guide"),
     target_keywords |-> Some(Prefix(base_topic, 3)),
     category |-> Some(category)]

\* the descriptor search_trending_topics returns for the reply `resp`
search_trending_topics(category, base_topic, resp) ==
    IF resp.kind = "json"
    THEN WithKey(Get(resp.obj), "category", Some(category))
    ELSE FallbackTopic(category, base_topic)

\* the text research_topic returns for the reply `resp`
research_topic(td, resp) == IF resp = "ok" THEN "notes" ELSE ""

\* building generate_blog_content's prompt joins the target keywords, outside
\* the try block
PromptRaises(td) == ~Joinable(Get(td.target_keywords))

\* what generate_blog_content returns for the reply `resp`: the payload, or None
generate_blog_content(td, notes, resp) ==
    IF resp.kind = "json"
    THEN Some(WithKey(WithKey(Get(resp.obj), "category", td.category),
                      "keywords", td.target_keywords))
    ELSE <<>>

\* ----------------------------------------------------------------- stage 4

\* str.replace("_", " ").title() on the category names of TOPIC_CATEGORIES
format_category(category) ==
    CASE category = "photography_tips" -> "Photography Tips"
      [] category = "seller_guides" -> "Seller Guides"
      [] OTHER -> category

\* the filled post template, as far as its content depends on the payload
PostHtml(bd, s) ==
    [kind |-> "post", title |-> Get(bd.title), slug |-> s,
     category |-> format_category(Get(bd.category)),
     content |-> Get(bd.content)]

\* post_entry; the date, image, read time and tags travel with it unread
PostEntry(bd, s) ==
    [slug |-> s, title |-> Get(bd.title),
     excerpt |-> Get(bd.meta_description),
     category |-> Get(bd.category),
     filename |-> PostFilename(s)]

\* rendering reads blog_data["meta_description"] before anything is written
SaveRaises(bd) == IsNone(bd.meta_description)

\* the slugs of the stored list
ExistingSlugs(ps) == {ps[i].slug : i \in 1..Len(ps)}

\* save_blog_post without the check of existing_slugs
save_blog_post_NoCheck(bd, d) ==
    LET s == create_slug(Get(bd.title))
        loaded == IF d.postsExists THEN d.posts ELSE <<>>
    IN  [ret |-> Some(s),
         disk |-> [postsExists |-> TRUE,
                   posts |-> <<PostEntry(bd, s)>> \o loaded,
                   files |-> WriteFile(d.files, PostFilename(s), PostHtml(bd, s))],
         wrote |-> {PostFilename(s), PostsJsonPath}]

\* save_blog_post on the disk state d = [postsExists, posts, files]: the value
\* it returns, the disk it leaves and the files it opened for writing
save_blog_post(bd, d) ==
    LET s == create_slug(Get(bd.title))
        post_filename == PostFilename(s)
        fs == WriteFile(d.files, post_filename, PostHtml(bd, s))
        loaded == IF d.postsExists THEN d.posts ELSE <<>>
    IN  IF s \in ExistingSlugs(loaded)
        THEN [ret |-> <<>>,
              disk |-> [d EXCEPT !.files = fs],
              wrote |-> {post_filename}]
        ELSE [ret |-> Some(s),
              disk |-> [postsExists |-> TRUE,
                        posts |-> <<PostEntry(bd, s)>> \o loaded,
                        files |-> fs],
              wrote |-> {post_filename, PostsJsonPath}]

\* ----------------------------------------------------------------- stage 5

\* the block generate_index_page renders for one record
PostBlock(p) ==
    [slug |-> p.slug, title |-> p.title,
     category |-> format_category(p.category), excerpt |-> p.excerpt]

\* an index page that links page 2 from 21 records on
IndexHtml_Page2At21(ps) ==
    LET shown == SubSeq(ps, 2, IF Len(ps) < 21 THEN Len(ps) ELSE 21)
    IN  [kind |-> "index",
         featured |-> IF ps # <<>> THEN <<PostBlock(ps[1])>> ELSE <<>>,
         cards |-> [i \in 1..Len(shown) |-> PostBlock(shown[i])],
         pagination |-> IF Len(ps) > 20 THEN <<"1", "2">> ELSE <<"1">>]

\* the three substituted blocks of the index template
IndexHtml(ps) ==
    LET shown == SubSeq(ps, 2, IF Len(ps) < 21 THEN Len(ps) ELSE 21)
    IN  [kind |-> "index",
         featured |-> IF ps # <<>> THEN <<PostBlock(ps[1])>> ELSE <<>>,
         cards |-> [i \in 1..Len(shown) |-> PostBlock(shown[i])],
         pagination |-> IF Len(ps) > 21 THEN <<"1", "2">> ELSE <<"1">>]

\* generate_index_page on the disk state d: the disk it leaves and the
\* files it opened for writing
generate_index_page(d) ==
    IF ~d.postsExists
    THEN [disk |-> d, wrote |-> {}]
    ELSE [disk |-> [d EXCEPT !.files = WriteFile(d.files, IndexPath, IndexHtml(d.posts))],
          wrote |-> {IndexPath}]

\* ----------------------------------------------------------------- stage 6

GitCommands == <<"add", "commit", "push">>

\* git_commit_and_push when command number failAt exits non-zero (0: none
\* does): the commands run, each with whether it succeeded; check=True raises
\* at the first failure and the except clauses swallow it
git_commit_and_push(failAt) ==
    LET last == IF failAt = 0 THEN Len(GitCommands) ELSE failAt
    IN  [i \in 1..last |-> [cmd |-> GitCommands[i], ok |-> i # failAt]]

\* a publish step that is not gated
InCI_Always(e) == TRUE

\* os.environ.get("CI") or os.environ.get("GITHUB_ACTIONS")
InCI(e) == Truthy(e.CI, "") \/ Truthy(e.GITHUB_ACTIONS, "")

EnvValues == {<<>>, Some(""), Some("true")}

\* ------------------------------------------------------------------ main()

Disk == [postsExists |-> postsExists, posts |-> posts, files |-> files]

SetDisk(d) ==
    /\ postsExists' = d.postsExists
    /\ posts' = d.posts
    /\ files' = d.files

Ended == pc \in {"done", "aborted", "crashed"}

\* main going from step 4 straight to step 6
AfterSave_SkipIndex(ret) == IF ~Truthy(ret, <<>>) THEN "aborted" ELSE "publish"

\* where main goes after stage 4 returned `ret`
AfterSave(ret) == IF ~Truthy(ret, <<>>) THEN "aborted" ELSE "index"

\* main without `if not blog_data: return`
AfterContent_NoCheck(bd) ==
    IF ~IsNone(bd) /\ (IsNone(Get(bd).title) \/ IsNone(Get(bd).content))
    THEN "crashed"
    ELSE "save"

\* where main goes after stage 3 returned `bd`: `if not blog_data: return`,
\* then the prints of blog_data['title'] and len(blog_data['content'])
AfterContent(bd) ==
    IF IsNone(bd) THEN "aborted"
    ELSE IF IsNone(Get(bd).title) \/ IsNone(Get(bd).content) THEN "crashed"
    ELSE "save"

\* a git_commit_and_push that lets a failed command's exception escape
AfterPublish_Reraise(log) ==
    IF \E i \in 1..Len(log) : ~log[i].ok THEN "crashed" ELSE "done"

\* where main goes after git_commit_and_push ran the commands `log`: its
\* except clauses swallow every failure, and main prints the success report
AfterPublish(log) == "done"

\* a run starts: main checks GROK_API_KEY and prints the banner
Main_Start ==
    /\ pc = "idle" \/ Ended
    /\ run < MaxRuns
    /\ run' = run + 1
    /\ topic_data' = <<>> /\ research' = <<>> /\ blog_data' = <<>> /\ slug' = <<>>
    /\ stages' = <<>> /\ calls' = <<>> /\ written' = {} /\ git' = <<>>
    /\ env' = <<>>
    /\ disk0' = Disk
    /\ \E keySet \in BOOLEAN : pc' = IF keySet THEN "topic" ELSE "aborted"
    /\ UNCHANGED <<diskVars, slugVars, sideVars>>

\* step 1: search_trending_topics, then the prints of the topic's fields
Stage1_Topic ==
    /\ pc = "topic"
    /\ \E category \in DOMAIN TOPIC_CATEGORIES :
       \E base_topic \in TOPIC_CATEGORIES[category] :
       \E resp \in TopicResponses :
         LET td == search_trending_topics(category, base_topic, resp)
         IN  /\ topic_data' = Some(td)
             /\ calls' = Append(calls, [api |-> "topic", kind |-> resp.kind,
                                      ok |-> WellFormed(resp),
                                      category |-> category,
                                      base_topic |-> base_topic])
             /\ pc' = IF IsNone(td.title) THEN "crashed" ELSE "research"
    /\ stages' = Append(stages, 1)
    /\ UNCHANGED <<run, research, blog_data, slug, written, git, env, diskVars, disk0, slugVars, sideVars>>

\* step 2: research_topic
Stage2_Research ==
    /\ pc = "research"
    /\ \E resp \in ResearchResponses :
         /\ research' = Some(research_topic(Get(topic_data), resp))
         /\ calls' = Append(calls, [api |-> "research", kind |-> resp,
                                    ok |-> resp = "ok"])
    /\ stages' = Append(stages, 2)
    /\ pc' = "content"
    /\ UNCHANGED <<run, topic_data, blog_data, slug, written, git, env, diskVars, disk0, slugVars, sideVars>>

\* step 3: generate_blog_content, then main's check of its result
Stage3_Content ==
    /\ pc = "content"
    /\ stages' = Append(stages, 3)
    /\ IF PromptRaises(Get(topic_data))
       THEN /\ pc' = "crashed"
            /\ UNCHANGED <<blog_data, calls>>
       ELSE \E resp \in ContentResponses :
              LET bd == generate_blog_content(Get(topic_data), Get(research), resp)
              IN  /\ blog_data' = bd
                  /\ calls' = Append(calls, [api |-> "content", kind |-> resp.kind,
                                          ok |-> WellFormed(resp)])
                  /\ pc' = AfterContent(bd)
    /\ UNCHANGED <<run, topic_data, research, slug, written, git, env, diskVars, disk0, slugVars, sideVars>>

\* step 4: save_blog_post, then main's check of the slug
Stage4_Save ==
    /\ pc = "save"
    /\ stages' = Append(stages, 4)
    /\ IF SaveRaises(Get(blog_data))
       THEN /\ pc' = "crashed"
            /\ UNCHANGED <<slug, written, diskVars>>
       ELSE LET r == save_blog_post(Get(blog_data), Disk)
            IN  /\ slug' = r.ret
                /\ SetDisk(r.disk)
                /\ written' = written \cup r.wrote
                /\ pc' = AfterSave(r.ret)
    /\ UNCHANGED <<run, topic_data, research, blog_data, calls, git, env, disk0, slugVars, sideVars>>

\* step 5: generate_index_page
Stage5_Index ==
    /\ pc = "index"
    /\ stages' = Append(stages, 5)
    /\ LET r == generate_index_page(Disk)
       IN  /\ SetDisk(r.disk)
           /\ written' = written \cup r.wrote
    /\ pc' = "publish"
    /\ UNCHANGED <<run, topic_data, research, blog_data, slug, calls, git, env, disk0, slugVars, sideVars>>

\* step 6: git_commit_and_push in a CI environment, then the success report
Stage6_Publish ==
    /\ pc = "publish"
    /\ stages' = Append(stages, 6)
    /\ \E ci \in EnvValues, gha \in EnvValues :
         LET e == [CI |-> ci, GITHUB_ACTIONS |-> gha]
         IN  /\ env' = Some(e)
             /\ IF InCI(e)
                THEN \E failAt \in 0..Len(GitCommands) :
                       /\ git' = git_commit_and_push(failAt)
                       /\ pc' = AfterPublish(git')
                ELSE /\ git' = git
                     /\ pc' = "done"
    /\ UNCHANGED <<run, topic_data, research, blog_data, slug, calls, written, diskVars, disk0, slugVars, sideVars>>

Init ==
    /\ pc = "idle"
    /\ run = 0
    /\ topic_data = <<>> /\ research = <<>> /\ blog_data = <<>> /\ slug = <<>>
    /\ stages = <<>> /\ calls = <<>> /\ written = {} /\ git = <<>> /\ env = <<>>
    /\ disk0 = [postsExists |-> FALSE, posts |-> <<>>, files |-> <<>>]
    /\ postsExists = FALSE
    /\ posts = <<>>
    /\ files = <<>>
    /\ slugIn = <<>>
    /\ slugOut = <<>>
    /\ slugAgain = <<>>
    /\ readIn = <<>> /\ readOut = <<>> /\ procs = <<>>

Next ==
    \/ Main_Start
    \/ Stage1_Topic
    \/ Stage2_Research
    \/ Stage3_Content
    \/ Stage4_Save
    \/ Stage5_Index
    \/ Stage6_Publish

Spec == Init /\ [][Next]_vars

\* ------------------------------------------- create_slug as a pure function

SlugAlphabet == {"a", "A", "1", " ", "\t", "-", "_", "!"}

SeqsUpTo(S, n) == UNION {[1..k -> S] : k \in 0..n}

Fill(n) == [i \in 1..n |-> "a"]

\* titles: at most one leading character, a run of letters whose length is
\* small or near the limit of the final slice, and a short tail
SlugInputs ==
    { pre \o Fill(n) \o suf :
        pre \in SeqsUpTo(SlugAlphabet, 1),
        n \in {0, 1} \cup ((SlugMax - MaxSuffix - 1)..(SlugMax + 1)),
        suf \in SeqsUpTo(SlugAlphabet, MaxSuffix) }

SlugInit ==
    /\ pc = "idle"
    /\ run = 0
    /\ topic_data = <<>> /\ research = <<>> /\ blog_data = <<>> /\ slug = <<>>
    /\ stages = <<>> /\ calls = <<>> /\ written = {} /\ git = <<>> /\ env = <<>>
    /\ disk0 = [postsExists |-> FALSE, posts |-> <<>>, files |-> <<>>]
    /\ postsExists = FALSE
    /\ posts = <<>>
    /\ files = <<>>
    /\ slugIn \in SlugInputs
    /\ slugOut = <<>>
    /\ slugAgain = <<>>
    /\ readIn = <<>> /\ readOut = <<>> /\ procs = <<>>

ApplySlug ==
    /\ IsNone(slugOut)
    /\ slugOut' = Some(create_slug(slugIn))
    /\ UNCHANGED <<pc, run, runVars, diskVars, slugIn, slugAgain, sideVars>>

\* create_slug applied to its own result
ApplySlugAgain ==
    /\ ~IsNone(slugOut)
    /\ IsNone(slugAgain)
    /\ slugAgain' = Some(create_slug(Get(slugOut)))
    /\ UNCHANGED <<pc, run, runVars, diskVars, slugIn, slugOut, sideVars>>

SlugNext ==
    \/ ApplySlug
    \/ ApplySlugAgain

SlugSpec == SlugInit /\ [][SlugNext]_vars

\* no run under way, and the pure functions not applied
IdleRun ==
    /\ pc = "idle"
    /\ run = 0
    /\ topic_data = <<>> /\ research = <<>> /\ blog_data = <<>> /\ slug = <<>>
    /\ stages = <<>> /\ calls = <<>> /\ written = {} /\ git = <<>> /\ env = <<>>
    /\ slugIn = <<>> /\ slugOut = <<>> /\ slugAgain = <<>>

\* ----------------------------------- calculate_read_time as a pure function

\* the average reading speed calculate_read_time divides by
WordsPerMinute == 200

\* re.sub(r'<[^>]+>', '', content): the matches, leftmost first and not
\* overlapping, as pairs <<first, last>> of positions. A "<" starts a match
\* when the next ">" comes after at least one other character.
RECURSIVE TagMatches(_, _)
TagMatches(s, from) ==
    LET closes == {j \in from..Len(s) : s[j] = ">"}
        NextClose(i) == Min({j \in closes : j > i})
        starts == {i \in from..Len(s) :
                     /\ s[i] = "<"
                     /\ \E j \in closes : j > i
                     /\ NextClose(i) >= i + 2}
    IN  IF starts = {} THEN {}
        ELSE LET i == Min(starts)
             IN  {<<i, NextClose(i)>>} \cup TagMatches(s, NextClose(i) + 1)

StripTags(s) ==
    LET tags == TagMatches(s, 1)
    IN  SelectSeq([i \in 1..Len(s) |->
                      IF \E t \in tags : t[1] <= i /\ i <= t[2] THEN "" ELSE s[i]],
                  NonEmptyChar)

\* len(text.split()): the maximal runs of characters that are no whitespace
WordCount(text) ==
    Cardinality({i \in 1..Len(text) :
                    /\ text[i] \notin Whitespace
                    /\ i = 1 \/ text[i-1] \in Whitespace})

\* round(n / d) of Python 3: to the nearest integer, a tie to the even one
Round(n, d) ==
    LET q == n \div d
        r == n % d
    IN  IF 2 * r < d THEN q
        ELSE IF 2 * r > d THEN q + 1
        ELSE IF q % 2 = 0 THEN q ELSE q + 1

\* a read time that truncates instead of rounding
calculate_read_time_Truncate(content) ==
    LET q == WordCount(StripTags(content)) \div WordsPerMinute
    IN  IF q < 1 THEN 1 ELSE q

calculate_read_time(content) ==
    LET text == StripTags(content)
        word_count == WordCount(text)
        minutes == Round(word_count, WordsPerMinute)
    IN  IF minutes < 1 THEN 1 ELSE minutes

\* bodies: n one-letter words, separated by one or two blanks, bare or
\* wrapped in <p>...</p>
Body(n, gap, wrapped) ==
    LET words == [i \in 1..(n * (gap + 1)) |-> IF i % (gap + 1) = 1 THEN "w" ELSE " "]
    IN  IF wrapped
        THEN <<"<", "p", ">">> \o words \o <<"<", "/", "p", ">">>
        ELSE words

ReadInit ==
    /\ IdleRun
    /\ disk0 = [postsExists |-> FALSE, posts |-> <<>>, files |-> <<>>]
    /\ postsExists = FALSE /\ posts = <<>> /\ files = <<>>
    /\ procs = <<>>
    /\ \E n \in 0..MaxWords, gap \in 1..2, wrapped \in BOOLEAN :
         readIn = Some(Body(n, gap, wrapped))
    /\ readOut = <<>>

ApplyReadTime ==
    /\ ~IsNone(readIn)
    /\ IsNone(readOut)
    /\ readOut' = Some(calculate_read_time(Get(readIn)))
    /\ UNCHANGED <<pc, run, runVars, diskVars, slugVars, readIn, procs>>

ReadNext == ApplyReadTime

ReadSpec == ReadInit /\ [][ReadNext]_vars

\* --------------------------------- generate_index_page on a stored list

\* the record and the file that a run leaves for the title "a" * k
StoredEntry(k) ==
    [slug |-> Fill(k), title |-> Fill(k), excerpt |-> "meta",
     category |-> IF k % 2 = 0 THEN "seller_guides" ELSE "photography_tips",
     filename |-> PostFilename(Fill(k))]
StoredHtml(k) ==
    [kind |-> "post", title |-> Fill(k), slug |-> Fill(k),
     category |-> format_category(StoredEntry(k).category), content |-> "body"]

\* the list after n saved posts, the oldest from the title "a" * first:
\* newest first
StoredPosts(n, first) == [i \in 1..n |-> StoredEntry(first + n - i)]
StoredFiles(n, first) ==
    [f \in {PostFilename(Fill(k)) : k \in first..(first + n - 1)} |->
        StoredHtml(Len(f) - 1)]

IndexInit ==
    /\ IdleRun
    /\ readIn = <<>> /\ readOut = <<>> /\ procs = <<>>
    /\ \E n \in 0..MaxPosts, first \in 1..3, exists \in BOOLEAN :
         /\ postsExists = exists
         /\ posts = IF exists THEN StoredPosts(n, first) ELSE <<>>
         /\ files = IF exists THEN StoredFiles(n, first) ELSE <<>>
         /\ disk0 = [postsExists |-> exists,
                     posts |-> IF exists THEN StoredPosts(n, first) ELSE <<>>,
                     files |-> IF exists THEN StoredFiles(n, first) ELSE <<>>]

\* generate_index_page, run once and then once more on the same posts.json
RegenerateIndex ==
    /\ Len(stages) < 2
    /\ stages' = Append(stages, 5)
    /\ LET r == generate_index_page(Disk)
       IN  /\ SetDisk(r.disk)
           /\ written' = written \cup r.wrote
    /\ UNCHANGED <<pc, run, topic_data, research, blog_data, slug, calls, git, env,
                   disk0, slugVars, sideVars>>

IndexNext == RegenerateIndex

IndexSpec == IndexInit /\ [][IndexNext]_vars

\* ------------------------- two runs inside save_blog_post at the same time

ConcRuns == {1, 2}

\* the payload a run brings to save_blog_post
ConcPayload(t) ==
    [title |-> Some(t), meta_description |-> Some("meta"), content |-> Some("body"),
     category |-> Some("photography_tips"), keywords |-> Some(<<"drone", "tips">>)]

\* a dump that reads posts.json again before it inserts
InsertAndDump_Reload(entry, loaded, current) == <<entry>> \o current

\* posts.insert(0, post_entry) on the list this run loaded, then json.dump:
\* the list the file holds afterwards, whatever it held (`current`) before
InsertAndDump(entry, loaded, current) == <<entry>> \o loaded

ConcInit ==
    /\ IdleRun
    /\ readIn = <<>> /\ readOut = <<>>
    /\ \E n \in 0..2 :
         /\ postsExists = (n > 0)
         /\ posts = StoredPosts(n, 1)
         /\ files = StoredFiles(n, 1)
         /\ disk0 = [postsExists |-> n > 0, posts |-> StoredPosts(n, 1),
                     files |-> StoredFiles(n, 1)]
    /\ \E t1 \in ApiTitles, t2 \in ApiTitles :
         procs = [p \in ConcRuns |->
                    [pc |-> "render",
                     blog_data |-> ConcPayload(IF p = 1 THEN t1 ELSE t2),
                     loaded |-> <<>>,
                     ret |-> <<>>]]

ConcSlug(p) == create_slug(Get(procs[p].blog_data.title))

\* run p fills the template and writes its post file
Conc_Render(p) ==
    /\ procs[p].pc = "render"
    /\ files' = WriteFile(files, PostFilename(ConcSlug(p)),
                          PostHtml(procs[p].blog_data, ConcSlug(p)))
    /\ procs' = [procs EXCEPT ![p].pc = "load"]
    /\ UNCHANGED <<pc, run, runVars, postsExists, posts, slugVars, readIn, readOut>>

\* run p loads posts.json and checks existing_slugs
Conc_Load(p) ==
    /\ procs[p].pc = "load"
    /\ LET loaded == IF postsExists THEN posts ELSE <<>>
       IN  procs' = [procs EXCEPT
                       ![p].loaded = loaded,
                       ![p].pc = IF ConcSlug(p) \in ExistingSlugs(loaded)
                                 THEN "done" ELSE "write"]
    /\ UNCHANGED <<pc, run, runVars, diskVars, slugVars, readIn, readOut>>

\* run p inserts its record into the list it loaded, dumps it and returns
Conc_Write(p) ==
    /\ procs[p].pc = "write"
    /\ posts' = InsertAndDump(PostEntry(procs[p].blog_data, ConcSlug(p)),
                              procs[p].loaded, posts)
    /\ postsExists' = TRUE
    /\ procs' = [procs EXCEPT ![p].pc = "done", ![p].ret = Some(ConcSlug(p))]
    /\ UNCHANGED <<pc, run, runVars, files, slugVars, readIn, readOut>>

ConcNext ==
    \E p \in ConcRuns :
        \/ Conc_Render(p)
        \/ Conc_Load(p)
        \/ Conc_Write(p)

ConcSpec == ConcInit /\ [][ConcNext]_vars

\* ================================================================== claims

\* the slug of the title the content call returned in this run
NewSlug == create_slug(Get(Get(blog_data).title))

ContentCallFailed ==
    \E i \in 1..Len(calls) : calls[i].api = "content" /\ calls[i].kind \in FailureKinds

\* C1: when the content-generation call fails (transport error, non-2xx, no
\* embedded JSON object, unparsable JSON), generate_blog_content returns no
\* payload and main aborts: no file is written, posts.json and the index page
\* are as the run found them, and no git command is run.
C1_ContentFailureAborts ==
    ContentCallFailed =>
        /\ IsNone(blog_data)
        /\ pc = "aborted"
        /\ stages = <<1, 2, 3>>
        /\ written = {}
        /\ Disk = disk0
        /\ git = <<>>

C1_Witness ==
    /\ ContentCallFailed
    /\ calls[3].kind = "badjson"
    /\ pc = "aborted"
    /\ Len(disk0.posts) >= 1

\* a run whose step 4 met a slug that the stored list already holds
DuplicateAttempt ==
    /\ Len(stages) >= 4
    /\ ~SaveRaises(Get(blog_data))
    /\ NewSlug \in ExistingSlugs(disk0.posts)

\* C2: when the slug of the new title is already in the stored list,
\* save_blog_post returns no slug, writes or overwrites no post file and
\* leaves posts.json alone, and main aborts before the index page and the
\* publish step.
C2_DuplicateRejected ==
    DuplicateAttempt =>
        /\ IsNone(slug)
        /\ written = {}
        /\ Disk = disk0
        /\ pc = "aborted"
        /\ stages = <<1, 2, 3, 4>>
        /\ git = <<>>

\* C3: no two records of posts.json have the same slug, after any sequence
\* of runs that starts from an absent index.
C3_SlugsUnique ==
    \A i, j \in 1..Len(posts) : posts[i].slug = posts[j].slug => i = j

C3_Witness ==
    /\ DuplicateAttempt
    /\ pc = "aborted"
    /\ Len(posts) >= 2

\* a run that has ended, whose three calls all returned well-formed payloads
\* and whose slug was not in the stored list
SuccessfulRun ==
    /\ Ended
    /\ Len(calls) = 3
    /\ \A i \in 1..3 : calls[i].ok
    /\ NewSlug \notin ExistingSlugs(disk0.posts)

\* C4: a successful run creates exactly one post file, named from the slug of
\* the returned title; posts.json is the old list with one new record at
\* position 0; and the featured block of the regenerated index page is built
\* from that record.
C4_SuccessfulRun ==
    SuccessfulRun =>
        LET bd == Get(blog_data)
            entry == PostEntry(bd, NewSlug)
            name == PostFilename(NewSlug)
        IN  /\ DOMAIN files = DOMAIN disk0.files \cup {name, IndexPath}
            /\ \A f \in DOMAIN disk0.files \ {name, IndexPath} : files[f] = disk0.files[f]
            /\ files[name] = PostHtml(bd, NewSlug)
            /\ postsExists
            /\ posts = <<entry>> \o disk0.posts
            /\ files[IndexPath].kind = "index"
            /\ files[IndexPath].featured = <<PostBlock(entry)>>

\* C5: the six stages run in order: every stage once at most, each after all
\* the earlier ones, none re-entered.
C5_StagesInOrder ==
    /\ Len(stages) <= 6
    /\ \A i \in 1..Len(stages) : stages[i] = i

C5_Witness == stages = <<1, 2, 3, 4, 5, 6>> /\ pc = "done"

\* C6: a failed topic call yields the fallback descriptor of the chosen seed,
\* with title and category; a failed research call yields the empty string;
\* and in both cases the run goes on to the content-generation call.
C6_FailuresAbsorbed ==
    /\ (Len(calls) >= 1 /\ calls[1].kind \in FailureKinds) =>
          LET td == Get(topic_data)
              c == calls[1]
          IN  /\ td.title = Some(TitleCase(c.base_topic))
              /\ td.category = Some(c.category)
              /\ td.search_query = Some(c.base_topic)
              /\ td.target_keywords = Some(Prefix(c.base_topic, 3))
              /\ Len(stages) = 1 => pc = "research"
              /\ Len(stages) = 2 => pc = "content"
              /\ Len(stages) >= 3 => Len(calls) = 3
    /\ (Len(calls) >= 2 /\ calls[2].kind = "error") =>
          /\ research = Some("")
          /\ Len(stages) = 2 => pc = "content"

C6_Witness ==
    /\ Len(calls) = 3
    /\ calls[1].kind = "badjson"
    /\ calls[2].kind = "error"
    /\ pc = "save"

\* C7: git commands are run only when CI or GITHUB_ACTIONS is set and stages
\* 1 to 5 of the same run have completed with a saved post.
C7_GitOnlyInCI ==
    git # <<>> =>
        /\ ~IsNone(env)
        /\ ~IsNone(Get(env).CI) \/ ~IsNone(Get(env).GITHUB_ACTIONS)
        /\ stages = <<1, 2, 3, 4, 5, 6>>
        /\ ~IsNone(slug)
        /\ posts # <<>> /\ posts[1].slug = Get(slug)
        /\ {PostFilename(Get(slug)), PostsJsonPath, IndexPath} \subseteq written

C7_Witness ==
    /\ Len(git) = 3
    /\ IsNone(Get(env).CI)
    /\ Get(env).GITHUB_ACTIONS = Some("true")

GitFailed(log) == \E i \in 1..Len(log) : ~log[i].ok

\* C8: a failure of git add, git commit or git push never propagates: the run
\* reaches its success report and the files written earlier stay as written.
C8_GitFailureCaught ==
    [][GitFailed(git') /\ ~GitFailed(git) => pc' = "done" /\ UNCHANGED diskVars]_vars

C8_Witness ==
    /\ pc = "done"
    /\ Len(git) = 2
    /\ ~git[2].ok
    /\ posts # <<>>

\* a file that a record of the stored list names
IsPostFile(f) == \E i \in 1..Len(posts) : posts[i].filename = f

\* C9: a record once in posts.json is never modified or removed, and a post
\* file once created is never rewritten by a later run.
C9_NeverRewritten ==
    [][/\ Len(posts') >= Len(posts)
       /\ \A i \in 1..Len(posts) : posts'[Len(posts') - Len(posts) + i] = posts[i]
       /\ \A f \in DOMAIN files : IsPostFile(f) /\ f \in written' => f \in written]_vars

\* C10: create_slug returns only lowercase letters, digits and hyphens, no two
\* adjacent hyphens, no leading or trailing hyphen, and at most 60 characters.
C10_SlugShape ==
    ~IsNone(slugOut) =>
        LET s == Get(slugOut)
        IN  /\ \A i \in 1..Len(s) : s[i] \in LowerLetters \cup Digits \cup {"-"}
            /\ \A i \in 1..(Len(s) - 1) : ~(s[i] = "-" /\ s[i+1] = "-")
            /\ s # <<>> => s[1] # "-" /\ s[Len(s)] # "-"
            /\ Len(s) <= 60

\* C11: create_slug is idempotent: create_slug(create_slug(s)) = create_slug(s)
\* for every title s.
C11_SlugIdempotent ==
    ~IsNone(slugAgain) => Get(slugAgain) = Get(slugOut)

\* C12: from a list of n records generate_index_page features record 0 (no
\* block when n = 0), renders the records at positions 1..20 as cards, in
\* list order, always renders the active page "1" and links page 2 exactly
\* when n > 21.
C12_IndexLayout ==
    (stages # <<>> /\ postsExists) =>
        /\ IndexPath \in DOMAIN files
        /\ LET page == files[IndexPath]
               n == Len(posts)
               shown == IF n = 0 THEN 0 ELSE IF n - 1 < 20 THEN n - 1 ELSE 20
           IN  /\ page.featured = IF n = 0 THEN <<>> ELSE <<PostBlock(posts[1])>>
               /\ Len(page.cards) = shown
               /\ \A i \in 1..shown : page.cards[i] = PostBlock(posts[i + 1])
               /\ page.pagination[1] = "1"
               /\ Len(page.pagination) = IF n > 21 THEN 2 ELSE 1
               /\ n > 21 => page.pagination[2] = "2"

C12_Witness ==
    /\ stages # <<>>
    /\ Len(posts) = 22
    /\ Len(files[IndexPath].cards) = 20
    /\ files[IndexPath].pagination = <<"1", "2">>

\* a step that is one call of generate_index_page
IndexStep == stages' = Append(stages, 5)

\* C13: generate_index_page never modifies posts.json or a post file, writes
\* nothing when posts.json does not exist, and run again on an unchanged
\* posts.json produces the same index page.
C13_IndexReadOnly ==
    [][IndexStep =>
         /\ postsExists' = postsExists
         /\ posts' = posts
         /\ \A f \in DOMAIN files : IsPostFile(f) => files'[f] = files[f]
         /\ ~postsExists => written' = written /\ files' = files
         /\ (IndexPath \in DOMAIN files /\ files[IndexPath] = IndexHtml(posts))
               => files'[IndexPath] = files[IndexPath]]_vars

\* the words of a body of ReadInit
WordsIn(content) == Cardinality({i \in 1..Len(content) : content[i] = "w"})

\* C14: for a body of w words calculate_read_time returns w/200 rounded to
\* the nearest integer, with a minimum of 1: an integer >= 1, which is 1 for
\* every w < 200 and 2 for w = 400.
C14_ReadTime ==
    ~IsNone(readOut) =>
        LET w == WordsIn(Get(readIn))
            minutes == Get(readOut)
        IN  /\ minutes \in Nat
            /\ minutes >= 1
            /\ w < 200 => minutes = 1
            /\ w = 400 => minutes = 2
            /\ \E q \in 0..(w \div 200 + 1) :
                 /\ 200 * q - w \in -100..100
                 /\ minutes = IF q < 1 THEN 1 ELSE q

C14_Witness ==
    /\ readOut = Some(2)
    /\ WordsIn(Get(readIn)) = 400
    /\ Get(readIn)[1] = "<"

\* the number of times this run has attempted the call `api`
CallsTo(api) == Cardinality({i \in 1..Len(calls) : calls[i].api = api})

\* C15: no call is retried: in every run each of the three API calls is
\* attempted at most once, and exactly once when the run reaches its stage,
\* whatever the call's outcome.
C15_NoRetry ==
    /\ \A api \in {"topic", "research", "content"} : CallsTo(api) <= 1
    /\ Len(stages) >= 1 => CallsTo("topic") = 1
    /\ Len(stages) >= 2 => CallsTo("research") = 1
    /\ Len(stages) >= 3 => CallsTo("content") = 1

\* both concurrent runs have saved, with different slugs
BothSaved ==
    /\ procs # <<>>
    /\ \A p \in ConcRuns : procs[p].pc = "done" /\ ~IsNone(procs[p].ret)
    /\ ConcSlug(1) # ConcSlug(2)

\* each run loaded posts.json before the other wrote it back
Overlapped ==
    \A p, q \in ConcRuns : p # q => ConcSlug(q) \notin ExistingSlugs(procs[p].loaded)

\* C16: two concurrent runs with different new slugs can both load the list
\* before either writes it back, and then the final posts.json holds only
\* one of the two new records; when they do not overlap it holds both.
C16_LostUpdate ==
    BothSaved =>
        LET kept == {p \in ConcRuns : ConcSlug(p) \in ExistingSlugs(posts)}
        IN  /\ Overlapped => Cardinality(kept) = 1
            /\ ~Overlapped => Cardinality(kept) = 2
            /\ \A i \in 1..Len(disk0.posts) :
                 posts[Len(posts) - Len(disk0.posts) + i] = disk0.posts[i]

C16_Witness ==
    /\ BothSaved
    /\ Overlapped
    /\ Len(disk0.posts) = 1
    /\ Len(posts) = 2
    /\ ConcSlug(1) \notin ExistingSlugs(posts)
    /\ ConcSlug(2) \in ExistingSlugs(posts)

\* C17: a run that changes posts.json goes on to regenerate the index page,
\* so that when a run has ended the featured block of the index page is
\* built from record 0 of posts.json, whatever the title, a title with an
\* empty slug included.
C17_IndexFollowsSave ==
    Ended =>
        /\ PostsJsonPath \in written => Len(stages) >= 5 /\ IndexPath \in written
        /\ (postsExists /\ posts # <<>>) =>
              /\ IndexPath \in DOMAIN files
              /\ files[IndexPath].kind = "index"
              /\ files[IndexPath].featured = <<PostBlock(posts[1])>>

====
